---- MODULE Spec2Model ----
(***************************************************************************)
(* Model of adncli, a command-line reader of the Adnkronos RSS feeds.      *)
(* src/main.go holds two revisions of the program:                         *)
(*   "single" - lines 1-182: one selection, then the process ends;         *)
(*   "loop"   - lines 184-405: an interactive loop until selection 0.      *)
(* Text is modelled as a sequence of one-character strings.                *)
(***************************************************************************)
EXTENDS Integers, Sequences, FiniteSets, TLC

(* ------------------------------ bounds -------------------------------- *)
\* longest standard input, in lines
MaxLines == 2
\* most chunks an input of the text cleaner is built from
MaxChunks == 3
\* most items of a feed handed to displayFeed
MaxItems == 2

(* --------------------------- text helpers ----------------------------- *)
\* U+00A0, the character html.UnescapeString yields for &nbsp;
NBSP == "~"

Variants == {"single", "loop"}

RECURSIVE Concat(_)
Concat(ss) == IF ss = <<>> THEN <<>> ELSE Head(ss) \o Concat(Tail(ss))

Drop(s, n) == SubSeq(s, n + 1, Len(s))

IndexOf(s, c) ==
  IF \E i \in 1..Len(s) : s[i] = c
  THEN CHOOSE i \in 1..Len(s) : s[i] = c /\ \A j \in 1..(i - 1) : s[j] # c
  ELSE 0

HasPrefix(s, p) == Len(s) >= Len(p) /\ SubSeq(s, 1, Len(p)) = p

\* unicode.IsSpace, on the characters of the model
IsSpace(c) == c \in {" ", NBSP}

\* strings.TrimSpace
RECURSIVE TrimLeft(_)
TrimLeft(s) ==
  IF s # <<>> /\ IsSpace(Head(s)) THEN TrimLeft(Tail(s)) ELSE s

RECURSIVE TrimRight(_)
TrimRight(s) ==
  IF s # <<>> /\ IsSpace(s[Len(s)]) THEN TrimRight(SubSeq(s, 1, Len(s) - 1)) ELSE s

TrimSpace(s) == TrimRight(TrimLeft(s))

\* strings.ToUpper, on the letters of the model
UpperOf(c) ==
  CASE c = "a" -> "A" [] c = "b" -> "B" [] c = "x" -> "X" [] OTHER -> c

ToUpper(s) == [i \in 1..Len(s) |-> UpperOf(s[i])]

(* ------------------------- the text cleaner --------------------------- *)
\* a cleaner that removes the first tag only (ReplaceString in place of ReplaceAllString)
ReplaceFirstTag(s) ==
  LET i == IndexOf(s, "<")
      rest == Drop(s, i)
  IN IF i = 0 THEN s
     ELSE IF IndexOf(rest, ">") = 0 THEN s
     ELSE SubSeq(s, 1, i - 1) \o Drop(rest, IndexOf(rest, ">"))

\* htmlTagRegex.ReplaceAllString(text, ""), htmlTagRegex = <[^>]*> :
\* leftmost matches, each from a '<' to the first '>' after it
RECURSIVE ReplaceAllTags(_)
ReplaceAllTags(s) ==
  IF s = <<>> THEN <<>>
  ELSE IF Head(s) = "<" /\ IndexOf(Tail(s), ">") # 0
       THEN ReplaceAllTags(Drop(Tail(s), IndexOf(Tail(s), ">")))
       ELSE <<Head(s)>> \o ReplaceAllTags(Tail(s))

NbspEntity == <<"&", "n", "b", "s", "p", ";">>

\* strings.ReplaceAll(clean, "&nbsp;", " ")
RECURSIVE ReplaceNbsp(_)
ReplaceNbsp(s) ==
  IF s = <<>> THEN <<>>
  ELSE IF HasPrefix(s, NbspEntity)
       THEN <<" ">> \o ReplaceNbsp(Drop(s, Len(NbspEntity)))
       ELSE <<Head(s)>> \o ReplaceNbsp(Tail(s))

\* removeTags of the single revision
removeTags(text) == TrimSpace(ReplaceNbsp(ReplaceAllTags(text)))

\* the named entities of html.UnescapeString that the model's letters spell
EntityNames ==
  { <<"a","m","p",";">>, <<"a","m","p">>, <<"l","t",";">>, <<"l","t">>,
    <<"g","t",";">>, <<"g","t">>, <<"n","b","s","p",";">>, <<"n","b","s","p">> }

EntityChar(name) ==
  CASE name[1] = "a" -> "&" [] name[1] = "l" -> "<"
    [] name[1] = "g" -> ">" [] OTHER -> NBSP

IsAlnum(c) == c \in {"a","b","g","l","m","n","p","s","t","x"}

longestEntityWithoutSemicolon == 6

\* length of the run of letters at the start of s
RECURSIVE AlnumRun(_)
AlnumRun(s) == IF s # <<>> /\ IsAlnum(Head(s)) THEN 1 + AlnumRun(Tail(s)) ELSE 0

\* the name unescapeEntity reads after an '&': the letters, then a ';' if one follows
EntityNameAt(s) ==
  LET n == AlnumRun(s)
  IN IF Len(s) > n /\ s[n + 1] = ";" THEN SubSeq(s, 1, n + 1) ELSE SubSeq(s, 1, n)

Min(a, b) == IF a < b THEN a ELSE b

\* the longest proper prefix (2..maxLen letters) of name that is an entity, or 0
PrefixEntityLen(name) ==
  LET maxLen == Min(Len(name) - 1, longestEntityWithoutSemicolon)
      js == {j \in 2..maxLen : SubSeq(name, 1, j) \in EntityNames}
  IN IF js = {} THEN 0 ELSE CHOOSE j \in js : \A k \in js : k <= j

\* html.UnescapeString
RECURSIVE UnescapeString(_)
UnescapeString(s) ==
  IF s = <<>> THEN <<>>
  ELSE IF Head(s) # "&" THEN <<Head(s)>> \o UnescapeString(Tail(s))
  ELSE LET name == EntityNameAt(Tail(s))
           j == PrefixEntityLen(name)
       IN IF name \in EntityNames
          THEN <<EntityChar(name)>> \o UnescapeString(Drop(s, 1 + Len(name)))
          ELSE IF j # 0
          THEN <<EntityChar(SubSeq(name, 1, j))>> \o UnescapeString(Drop(s, 1 + j))
          ELSE SubSeq(s, 1, 1 + Len(name)) \o UnescapeString(Drop(s, 1 + Len(name)))

\* cleanText of the loop revision
cleanText(text) == TrimSpace(UnescapeString(ReplaceAllTags(text)))

sanitize(v, text) == IF v = "single" THEN removeTags(text) ELSE cleanText(text)

(* ------------------------ selection parsing --------------------------- *)
Digits == {"0", "1", "2", "3", "4", "5", "6", "7", "8", "9"}

DigitVal(c) ==
  CASE c = "0" -> 0 [] c = "1" -> 1 [] c = "2" -> 2 [] c = "3" -> 3
    [] c = "4" -> 4 [] c = "5" -> 5 [] c = "6" -> 6 [] c = "7" -> 7
    [] c = "8" -> 8 [] OTHER -> 9

RECURSIVE DigitRun(_)
DigitRun(s) == IF s # <<>> /\ Head(s) \in Digits THEN 1 + DigitRun(Tail(s)) ELSE 0

RECURSIVE DecimalVal(_)
DecimalVal(ds) ==
  IF ds = <<>> THEN 0
  ELSE 10 * DecimalVal(SubSeq(ds, 1, Len(ds) - 1)) + DigitVal(ds[Len(ds)])

HasSign(s) == s # <<>> /\ Head(s) \in {"+", "-"}

Signed(s, n) == IF HasSign(s) /\ Head(s) = "-" THEN 0 - n ELSE n

\* strconv.Atoi: an optional sign, then digits and nothing else
Atoi(s) ==
  LET body == IF HasSign(s) THEN Tail(s) ELSE s
  IN IF body # <<>> /\ DigitRun(body) = Len(body)
     THEN [ok |-> TRUE, val |-> Signed(s, DecimalVal(body))]
     ELSE [ok |-> FALSE, val |-> 0]

\* fmt.Sscanf(input, "%d", &cat): leading spaces are skipped, then an optional
\* sign and the longest run of digits are read; what follows is left unread
Sscanf(s) ==
  LET t == TrimLeft(s)
      body == IF HasSign(t) THEN Tail(t) ELSE t
      n == DigitRun(body)
  IN IF n > 0
     THEN [ok |-> TRUE, val |-> Signed(t, DecimalVal(SubSeq(body, 1, n)))]
     ELSE [ok |-> FALSE, val |-> 0]

\* getCategoryInput of the single revision, and the scanner.Text / Atoi steps
\* of Run in the loop revision, on one line read from the input
parseSelection(v, line) ==
  IF v = "single" THEN Sscanf(TrimSpace(line)) ELSE Atoi(TrimSpace(line))

(* ------------------------- the category table ------------------------- *)
CategoryIDs == 1..8

\* categoryURLs of NewRssReader (single) and categories of NewRssReader (loop);
\* a URL is named by the file it ends in
categoryURLs ==
  [id \in CategoryIDs |->
     CASE id = 1 -> "RSS_PrimaPagina.xml" [] id = 2 -> "RSS_Ultimora.xml"
       [] id = 3 -> "RSS_Politica.xml"    [] id = 4 -> "RSS_Esteri.xml"
       [] id = 5 -> "RSS_Cronaca.xml"     [] id = 6 -> "RSS_Economia.xml"
       [] id = 7 -> "RSS_Finanza.xml"     [] OTHER  -> "RSS_Sport.xml"]

\* categories of NewRssReader (loop): the same table as an ordered list
categories == [i \in 1..8 |-> [ID |-> i, URL |-> categoryURLs[i]]]

\* the scan of r.categories in Run (loop): the URL of the first entry whose ID
\* is the choice, "" when there is none
RECURSIVE findURL(_, _)
findURL(cats, c) ==
  IF cats = <<>> THEN ""
  ELSE IF Head(cats).ID = c THEN Head(cats).URL ELSE findURL(Tail(cats), c)

\* a lookup that clamps ids above the table to its last entry
lookupCategory_Clamped(v, id) ==
  IF id >= 1
  THEN [ok |-> TRUE, url |-> categoryURLs[IF id > 8 THEN 8 ELSE id]]
  ELSE [ok |-> FALSE, url |-> ""]

\* url, ok := r.categoryURLs[category] (single); the scan of r.categories
\* followed by the test selectedURL == "" (loop)
lookupCategory(v, id) ==
  IF v = "single"
  THEN IF id \in DOMAIN categoryURLs
       THEN [ok |-> TRUE, url |-> categoryURLs[id]]
       ELSE [ok |-> FALSE, url |-> ""]
  ELSE LET selectedURL == findURL(categories, id)
       IN [ok |-> selectedURL # "", url |-> selectedURL]

\* a sentinel test that misses 0
isExit_Negative(category) == category < 0

\* if category == 0 (single), if choice == 0 (loop)
isExit(category) == category = 0

(* ------------------------------ the feed ------------------------------ *)
Nil == [nil |-> TRUE]

EmptyItem == [Title |-> <<>>, Link |-> <<>>, Description |-> <<>>, PubDate |-> <<>>]

EmptyChannel == [Title |-> <<>>, Description |-> <<>>, Link |-> <<>>, Items |-> <<>>]

\* the tokens of a response body
Open(n) == [k |-> "open", n |-> n, s |-> <<>>]
Close(n) == [k |-> "close", n |-> n, s |-> <<>>]
Chars(t) == [k |-> "text", n |-> "", s |-> t]

ChannelFields == {"title", "description", "link"}
ItemFields == {"title", "link", "description", "pubDate"}

SetChannel(ch, n, t) ==
  CASE n = "title" -> [ch EXCEPT !.Title = t]
    [] n = "description" -> [ch EXCEPT !.Description = t]
    [] OTHER -> [ch EXCEPT !.Link = t]

GetChannel(ch, n) ==
  CASE n = "title" -> ch.Title [] n = "description" -> ch.Description
    [] OTHER -> ch.Link

SetItem(it, n, t) ==
  CASE n = "title" -> [it EXCEPT !.Title = t]
    [] n = "link" -> [it EXCEPT !.Link = t]
    [] n = "description" -> [it EXCEPT !.Description = t]
    [] OTHER -> [it EXCEPT !.PubDate = t]

GetItem(it, n) ==
  CASE n = "title" -> it.Title [] n = "link" -> it.Link
    [] n = "description" -> it.Description [] OTHER -> it.PubDate

\* the element paths that the struct tags of Rss, Channel and Item bind; the
\* root is accepted under any name since Rss declares no XMLName
InChannel(path) == Len(path) >= 2 /\ path[2] = "channel"
IsChannelField(path) == Len(path) = 3 /\ InChannel(path) /\ path[3] \in ChannelFields
IsItem(path) == Len(path) = 3 /\ InChannel(path) /\ path[3] = "item"
IsItemField(path) ==
  Len(path) = 4 /\ InChannel(path) /\ path[3] = "item" /\ path[4] \in ItemFields

\* one token read by xml.Decoder.Decode(&rss).  d.stack: the open elements,
\* d.done: the root element has ended, d.bad: a syntax error was met
DecodeToken(d, tok) ==
  IF d.done \/ d.bad THEN d
  ELSE IF tok.k = "open" THEN
    LET path == Append(d.stack, tok.n)
        n == Len(d.ch.Items)
    IN [d EXCEPT !.stack = path,
                 !.ch = IF IsChannelField(path) THEN SetChannel(d.ch, tok.n, <<>>)
                        ELSE IF IsItem(path)
                        THEN [d.ch EXCEPT !.Items = Append(@, EmptyItem)]
                        ELSE IF IsItemField(path)
                        THEN [d.ch EXCEPT !.Items[n] = SetItem(@, tok.n, <<>>)]
                        ELSE d.ch]
  ELSE IF tok.k = "close" THEN
    IF d.stack = <<>> \/ d.stack[Len(d.stack)] # tok.n
    THEN [d EXCEPT !.bad = TRUE]
    ELSE [d EXCEPT !.stack = SubSeq(@, 1, Len(@) - 1), !.done = Len(d.stack) = 1]
  ELSE
    LET path == d.stack
        n == Len(d.ch.Items)
    IN [d EXCEPT !.ch =
          IF IsChannelField(path)
          THEN SetChannel(d.ch, path[3], GetChannel(d.ch, path[3]) \o tok.s)
          ELSE IF IsItemField(path)
          THEN [d.ch EXCEPT !.Items[n] = SetItem(@, path[4], GetItem(@, path[4]) \o tok.s)]
          ELSE d.ch]

RECURSIVE DecodeTokens(_, _)
DecodeTokens(d, body) ==
  IF body = <<>> THEN d ELSE DecodeTokens(DecodeToken(d, Head(body)), Tail(body))

DecodeStart == [stack |-> <<>>, done |-> FALSE, bad |-> FALSE, ch |-> EmptyChannel]

\* a decoder that returns what it has read when the body ends early
Decode_Partial(body) ==
  LET d == DecodeTokens(DecodeStart, body)
  IN IF d.bad
     THEN [ok |-> FALSE, rss |-> Nil]
     ELSE [ok |-> TRUE, rss |-> [Channel |-> d.ch]]

\* xml.NewDecoder(resp.Body).Decode(&rss): an error when a syntax error is met
\* or the body ends before the root element has ended
Decode(body) ==
  LET d == DecodeTokens(DecodeStart, body)
  IN IF d.bad \/ ~d.done
     THEN [ok |-> FALSE, rss |-> Nil]
     ELSE [ok |-> TRUE, rss |-> [Channel |-> d.ch]]

(* ------------------------------ the fetch ----------------------------- *)
NoErr == [kind |-> "none", code |-> 0]
Error(kind, code) == [kind |-> kind, code |-> code]

\* a status check that lets redirects through
statusFails_From400(v, code) == code >= 400

\* resp.StatusCode >= 300 (single), resp.StatusCode != http.StatusOK (loop)
statusFails(v, code) == IF v = "single" THEN code >= 300 ELSE code # 200

\* fetchRssFeed (single) and fetchFeed (loop) on the outcome r of the GET:
\* r.kind is "transport" (the network fails), "timeout" (the deadline elapses)
\* or "http" (a response with r.status and r.body arrives)
fetchFeed(v, r) ==
  IF r.kind # "http"
  THEN [rss |-> Nil, err |-> Error(r.kind, 0), decoded |-> FALSE]
  ELSE IF statusFails(v, r.status)
  THEN [rss |-> Nil, err |-> Error("status", r.status), decoded |-> FALSE]
  ELSE LET x == Decode(r.body)
       IN IF ~x.ok
          THEN [rss |-> Nil, err |-> Error("xml", 0), decoded |-> TRUE]
          ELSE [rss |-> x.rss, err |-> NoErr, decoded |-> TRUE]

(* ----------------------------- the display ---------------------------- *)
\* one value written to the output: f names what it is, n is the number
\* printed with it (0: none), s its text
Line(f, n, s) == [f |-> f, n |-> n, s |-> s]

\* the body of the loop over rss.Channel.Items in displayFeed (single)
displayItemSingle(item) ==
  << Line("item.title", 0, item.Title),
     Line("item.link", 0, item.Link),
     Line("item.description", 0, removeTags(item.Description)),
     Line("item.pubDate", 0, item.PubDate),
     Line("rule", 0, <<>>) >>

\* the body of the loop over rss.Channel.Items in displayFeed (loop)
displayItemLoop(i, item) ==
  LET desc == cleanText(item.Description)
  IN << Line("item.title", i, TrimSpace(item.Title)) >>
     \o (IF item.PubDate # <<>> THEN << Line("item.pubDate", 0, item.PubDate) >> ELSE <<>>)
     \o (IF desc # <<>> THEN << Line("item.description", 0, desc) >> ELSE <<>>)
     \o << Line("rule", 0, <<>>) >>

\* a display that ranges over the items last to first
itemOrder_Reversed(items) == [i \in 1..Len(items) |-> Len(items) + 1 - i]

\* the order in which displayFeed ranges over the items
itemOrder(items) == [i \in 1..Len(items) |-> i]

displayFeed(v, rss) ==
  LET ch == rss.Channel
      ord == itemOrder(ch.Items)
  IN IF v = "single"
     THEN << Line("channel.title", 0, ch.Title),
             Line("channel.link", 0, ch.Link),
             Line("channel.description", 0, ch.Description) >>
          \o Concat([i \in 1..Len(ord) |-> displayItemSingle(ch.Items[ord[i]])])
     ELSE << Line("channel.title", 0, ToUpper(ch.Title)),
             Line("channel.description", 0, ch.Description) >>
          \o (IF Len(ch.Items) = 0
              THEN << Line("empty", 0, <<>>) >>
              ELSE Concat([i \in 1..Len(ord) |-> displayItemLoop(i, ch.Items[ord[i]])]))

\* every failed cycle ends the process
errorIsFatal_Always(v) == TRUE

\* after a cycle that failed: main prints the error and calls os.Exit(1)
\* (single); Run prints the error and continues the loop (loop)
errorIsFatal(v) == v = "single"

\* no revision waits after a feed
waitsForEnter_Never(v) == FALSE

\* after a feed was displayed Run (loop) reads one more line and drops it
waitsForEnter(v) == v = "loop"

(* ------------------------------- inputs ------------------------------- *)
\* the lines typed at the prompt
Lines ==
  { <<"0">>, <<"5">>, <<" ", "3", " ">>, <<"9">>, <<"-", "1">>,
    <<"x">>, <<>>, <<"5", "x">> }

RECURSIVE SeqsUpTo(_, _)
SeqsUpTo(S, n) ==
  IF n = 0 THEN {<<>>}
  ELSE LET shorter == SeqsUpTo(S, n - 1)
       IN shorter \cup {Append(q, x) : q \in {t \in shorter : Len(t) = n - 1}, x \in S}

\* the items a feed is made of
ItemPool ==
  { [Title |-> <<"a">>, Link |-> <<"x">>,
     Description |-> <<"<", "b", ">", "x">>, PubDate |-> <<"1">>],
    [Title |-> <<" ", "b">>, Link |-> <<"b">>,
     Description |-> <<"&", "l", "t", ";">>, PubDate |-> <<>>],
    [Title |-> <<>>, Link |-> <<>>,
     Description |-> <<"<", "b", ">">>, PubDate |-> <<"2">>] }

Feeds ==
  { [Channel |-> [Title |-> t, Description |-> <<"x">>, Link |-> <<"l">>, Items |-> is]] :
      t \in {<<>>, <<"a", "b">>}, is \in SeqsUpTo(ItemPool, MaxItems) }

Element(n, t) == <<Open(n), Chars(t), Close(n)>>

ItemTokens(it) ==
  <<Open("item")>> \o Element("title", it.Title) \o Element("link", it.Link)
    \o Element("description", it.Description) \o Element("pubDate", it.PubDate)
    \o <<Close("item")>>

\* the document a server sends for a feed
DocOf(feed) ==
  LET ch == feed.Channel
  IN <<Open("rss"), Open("channel")>> \o Element("title", ch.Title)
       \o Element("description", ch.Description) \o Element("link", ch.Link)
       \o Concat([i \in 1..Len(ch.Items) |-> ItemTokens(ch.Items[i])])
       \o <<Close("channel"), Close("rss")>>

Docs == {DocOf(f) : f \in {g \in Feeds : g.Channel.Title # <<>>}}

\* the documents cut before their end
Truncations == UNION {{SubSeq(d, 1, k) : k \in 0..(Len(d) - 1)} : d \in Docs}

\* bodies that are complete but not well formed, or carry more than a feed
OddBodies ==
  { <<Open("rss"), Open("channel"), Close("rss"), Close("channel")>>,
    <<Close("rss")>>,
    <<Chars(<<" ">>), Open("feed"), Open("channel"), Open("title"), Chars(<<"a">>),
      Open("b"), Chars(<<"x">>), Close("b"), Close("title"), Open("meta"),
      Open("item"), Close("item"), Close("meta"), Close("channel"), Close("feed"),
      Open("rss")>> }

Bodies == Docs \cup Truncations \cup OddBodies

Statuses == {200, 204, 301, 404, 500}

Http(status, body) == [kind |-> "http", status |-> status, body |-> body]
Failed(kind) == [kind |-> kind, status |-> 0, body |-> <<>>]
NoResp == Failed("none")

Responses ==
  {Failed("transport"), Failed("timeout")}
    \cup {Http(c, b) : c \in Statuses, b \in Bodies}

OneItemDoc ==
  DocOf([Channel |-> [Title |-> <<"a", "b">>, Description |-> <<"x">>, Link |-> <<"l">>,
                      Items |-> << [Title |-> <<"a">>, Link |-> <<"x">>,
                                    Description |-> <<"<", "b", ">", "x">>,
                                    PubDate |-> <<"1">>] >>]])

\* the outcomes of the GET tried in a session; the bodies are the document
\* and the document cut after each token
SessionResponses ==
  {Failed("transport"), Failed("timeout")}
    \cup {Http(c, SubSeq(OneItemDoc, 1, k)) : c \in {200, 301, 500}, k \in 0..Len(OneItemDoc)}

\* the inputs of the text cleaner: up to MaxChunks pieces, joined
Chunks ==
  { <<"<">>, <<">">>, <<"<", "x", ">">>, <<"x">>, <<" ">>, <<"&">>,
    <<"l", "t", ";">>, <<"a", "m", "p", ";">>, <<"n", "b", "s", "p", ";">> }

Texts == {Concat(cs) : cs \in SeqsUpTo(Chunks, MaxChunks)}

(* ------------------------------- state -------------------------------- *)
VARIABLES
  variant,    \* which revision of main.go runs
  pc,         \* where the process is
  stdin,      \* the lines not yet read from standard input
  exitCode,   \* the exit status, -1 while the process runs
  consumed,   \* what each line read so far was read as
  read,       \* this cycle: how the read of the selection ended
  input,      \* this cycle: the line read as the selection
  choice,     \* this cycle: the selection parsed from input
  lookedUp,   \* this cycle: the category table was consulted
  requests,   \* this cycle: the URLs a GET was issued to
  resp,       \* the outcome of the GET
  rss,        \* the feed returned by the fetch, Nil when none
  err,        \* the error of the cycle or of the fetch
  decoded,    \* the body of resp was handed to the XML decoder
  displayed,  \* displayFeed was called
  out,        \* this cycle: what was written to the output
  text,       \* the argument of the text cleaner
  clean       \* the results of the text cleaner, one per pass

vars == <<variant, pc, stdin, exitCode, consumed, read, input, choice, lookedUp,
          requests, resp, rss, err, decoded, displayed, out, text, clean>>

NoChoice == [ok |-> FALSE, val |-> 0]

\* the values of one cycle, before anything happened in it
NoCycle ==
  [ read |-> "none", input |-> <<>>, choice |-> NoChoice, lookedUp |-> FALSE,
    requests |-> <<>>, resp |-> NoResp, rss |-> Nil, err |-> NoErr,
    decoded |-> FALSE, displayed |-> FALSE, out |-> <<>> ]

SetCycle(c) ==
  /\ read' = c.read /\ input' = c.input /\ choice' = c.choice
  /\ lookedUp' = c.lookedUp /\ requests' = c.requests /\ resp' = c.resp
  /\ rss' = c.rss /\ err' = c.err /\ decoded' = c.decoded
  /\ displayed' = c.displayed /\ out' = c.out

IdleCycle ==
  /\ read = "none" /\ input = <<>> /\ choice = NoChoice /\ lookedUp = FALSE
  /\ requests = <<>> /\ resp = NoResp /\ rss = Nil /\ err = NoErr
  /\ decoded = FALSE /\ displayed = FALSE /\ out = <<>>

IdleSession == stdin = <<>> /\ exitCode = -1 /\ consumed = <<>>

IdleCleaner == text = <<>> /\ clean = <<>>

(* ------------------------ the interactive session --------------------- *)
Init ==
  /\ variant \in Variants
  /\ pc = "start"
  /\ stdin \in SeqsUpTo(Lines, MaxLines)
  /\ exitCode = -1 /\ consumed = <<>>
  /\ IdleCycle /\ IdleCleaner

\* main up to the call of Run: NewRssReader; the pattern is fixed and valid,
\* so regexp.Compile returns no error
NewRssReader ==
  /\ pc = "start"
  /\ pc' = "prompt"
  /\ UNCHANGED <<variant, stdin, exitCode, consumed, read, input, choice, lookedUp,
                 requests, resp, rss, err, decoded, displayed, out, text, clean>>

Menu == <<Line("menu", 0, <<>>)>>
Message(e) == <<Line("error", e.code, <<>>)>>

\* the end of a cycle that failed with error e after writing o
FailCycle(c, e, o) ==
  /\ SetCycle([c EXCEPT !.err = e, !.out = o \o Message(e)])
  /\ pc' = IF errorIsFatal(variant) THEN "exited" ELSE "prompt"
  /\ exitCode' = IF errorIsFatal(variant) THEN 1 ELSE -1

\* Run when the read of the selection fails: ReadString returns an error
\* (single), scanner.Scan returns false (loop)
RunReadFails ==
  /\ pc = "prompt" /\ stdin = <<>>
  /\ LET c == [NoCycle EXCEPT !.read = "eof"]
     IN IF variant = "single"
        THEN FailCycle(c, Error("read", 0), Menu)
        ELSE /\ SetCycle([c EXCEPT !.out = Menu])
             /\ pc' = "exited" /\ exitCode' = 0
  /\ UNCHANGED <<variant, stdin, consumed, text, clean>>

\* the cycle up to the parse of the line at the head of stdin
ReadCycle ==
  [NoCycle EXCEPT !.read = "line", !.input = Head(stdin),
                  !.choice = parseSelection(variant, Head(stdin))]

\* Run when the line is not a number
RunBadInput ==
  /\ pc = "prompt" /\ stdin # <<>>
  /\ ~ReadCycle.choice.ok
  /\ FailCycle(ReadCycle, Error("input", 0), Menu)
  /\ stdin' = Tail(stdin) /\ consumed' = Append(consumed, "selection")
  /\ UNCHANGED <<variant, text, clean>>

\* Run when the selection is the sentinel
RunExit ==
  /\ pc = "prompt" /\ stdin # <<>>
  /\ ReadCycle.choice.ok /\ isExit(ReadCycle.choice.val)
  /\ SetCycle([ReadCycle EXCEPT
       !.out = IF variant = "single" THEN Menu ELSE Menu \o <<Line("bye", 0, <<>>)>>])
  /\ pc' = "exited" /\ exitCode' = 0
  /\ stdin' = Tail(stdin) /\ consumed' = Append(consumed, "selection")
  /\ UNCHANGED <<variant, text, clean>>

\* Run when the selection is not in the category table
RunUnknownCategory ==
  /\ pc = "prompt" /\ stdin # <<>>
  /\ ReadCycle.choice.ok /\ ~isExit(ReadCycle.choice.val)
  /\ ~lookupCategory(variant, ReadCycle.choice.val).ok
  /\ FailCycle([ReadCycle EXCEPT !.lookedUp = TRUE], Error("category", 0), Menu)
  /\ stdin' = Tail(stdin) /\ consumed' = Append(consumed, "selection")
  /\ UNCHANGED <<variant, text, clean>>

Loading(v) == IF v = "loop" THEN <<Line("loading", 0, <<>>)>> ELSE <<>>

\* Run when the selection names a category: the feed is fetched and, when the
\* fetch returns no error, displayed
RunFetch ==
  /\ pc = "prompt" /\ stdin # <<>>
  /\ ReadCycle.choice.ok /\ ~isExit(ReadCycle.choice.val)
  /\ lookupCategory(variant, ReadCycle.choice.val).ok
  /\ \E r \in SessionResponses :
       LET url == lookupCategory(variant, ReadCycle.choice.val).url
           f == fetchFeed(variant, r)
           c == [ReadCycle EXCEPT !.lookedUp = TRUE, !.requests = <<url>>,
                                  !.resp = r, !.decoded = f.decoded]
           wait == waitsForEnter(variant)
       IN IF f.err # NoErr
          THEN /\ FailCycle(c, f.err, Menu \o Loading(variant))
               /\ stdin' = Tail(stdin) /\ consumed' = Append(consumed, "selection")
          ELSE /\ SetCycle([c EXCEPT !.rss = f.rss, !.displayed = TRUE,
                              !.out = Menu \o Loading(variant) \o displayFeed(variant, f.rss)
                                      \o (IF wait THEN <<Line("enter", 0, <<>>)>> ELSE <<>>)])
               /\ pc' = IF variant = "single" THEN "exited" ELSE "prompt"
               /\ exitCode' = IF variant = "single" THEN 0 ELSE -1
               /\ stdin' = IF wait /\ Tail(stdin) # <<>>
                           THEN Tail(Tail(stdin)) ELSE Tail(stdin)
               /\ consumed' = IF wait /\ Tail(stdin) # <<>>
                              THEN consumed \o <<"selection", "enter">>
                              ELSE Append(consumed, "selection")
  /\ UNCHANGED <<variant, text, clean>>

Next ==
  \/ NewRssReader
  \/ RunReadFails
  \/ RunBadInput
  \/ RunExit
  \/ RunUnknownCategory
  \/ RunFetch

Spec == Init /\ [][Next]_vars

(* ------------------------- the fetch on its own ----------------------- *)
InitFetch ==
  /\ variant \in Variants
  /\ pc = "fetch"
  /\ resp \in Responses
  /\ read = "none" /\ input = <<>> /\ choice = NoChoice /\ lookedUp = FALSE
  /\ requests = <<>> /\ rss = Nil /\ err = NoErr
  /\ decoded = FALSE /\ displayed = FALSE /\ out = <<>>
  /\ IdleSession /\ IdleCleaner

FetchFeed ==
  /\ pc = "fetch"
  /\ LET f == fetchFeed(variant, resp)
     IN rss' = f.rss /\ err' = f.err /\ decoded' = f.decoded
  /\ pc' = "fetched"
  /\ UNCHANGED <<variant, stdin, exitCode, consumed, read, input, choice, lookedUp,
                 requests, resp, displayed, out, text, clean>>

SpecFetch == InitFetch /\ [][FetchFeed]_vars

(* ------------------------ the display on its own ---------------------- *)
InitDisplay ==
  /\ variant \in Variants
  /\ pc = "display"
  /\ rss \in Feeds
  /\ read = "none" /\ input = <<>> /\ choice = NoChoice /\ lookedUp = FALSE
  /\ requests = <<>> /\ resp = NoResp /\ err = NoErr
  /\ decoded = FALSE /\ displayed = FALSE /\ out = <<>>
  /\ IdleSession /\ IdleCleaner

DisplayFeed ==
  /\ pc = "display"
  /\ out' = displayFeed(variant, rss)
  /\ displayed' = TRUE
  /\ pc' = "displayed"
  /\ UNCHANGED <<variant, stdin, exitCode, consumed, read, input, choice, lookedUp,
                 requests, resp, rss, err, decoded, text, clean>>

SpecDisplay == InitDisplay /\ [][DisplayFeed]_vars

(* --------------------- the text cleaner on its own -------------------- *)
InitClean ==
  /\ variant \in Variants
  /\ pc = "clean"
  /\ text \in Texts
  /\ clean = <<>>
  /\ IdleCycle /\ IdleSession

\* removeTags (single) or cleanText (loop), applied to the text and then to
\* its own result
Sanitize ==
  /\ pc = "clean"
  /\ Len(clean) < 2
  /\ clean' = Append(clean, sanitize(variant, IF clean = <<>> THEN text ELSE clean[1]))
  /\ UNCHANGED <<variant, pc, stdin, exitCode, consumed, read, input, choice, lookedUp,
                 requests, resp, rss, err, decoded, displayed, out, text>>

SpecClean == InitClean /\ [][Sanitize]_vars

(* ------------------------------ properties ---------------------------- *)
Range(q) == {q[i] : i \in 1..Len(q)}

HasMessage == \E i \in 1..Len(out) : out[i].f = "error"

Recoverable ==
  err.kind \in {"input", "category", "transport", "timeout", "status", "xml"}

Selected(n) == read = "line" /\ choice.ok /\ choice.val = n

C2_FailureHasMessage ==
  (read = "eof" \/ err # NoErr) => HasMessage

\* C3: selection 0 ends the session with exit status 0, and in its cycle the
\* category table is not consulted, no GET is issued and no feed is displayed
C3_SentinelExits ==
  Selected(0) =>
    /\ pc = "exited" /\ exitCode = 0
    /\ ~lookedUp /\ requests = <<>> /\ resp = NoResp
    /\ rss = Nil /\ ~displayed
    /\ \A i \in 1..Len(out) : out[i].f \in {"menu", "bye"}

C3_Witness == Selected(0) /\ input = <<"0">> /\ pc = "exited"

\* C4: the table maps exactly 1..8, each to its own non-empty URL; any other
\* non-zero selection is reported as not found and no GET is issued, and a
\* selection in 1..8 requests the URL of that id
C4_CategoryTable ==
  /\ DOMAIN categoryURLs = 1..8
  /\ \A a, b \in 1..8 : categoryURLs[a] # "" /\ (a # b => categoryURLs[a] # categoryURLs[b])
  /\ \A n \in -1..10 :
       (Selected(n) /\ n # 0) =>
         IF n \in 1..8
         THEN lookedUp /\ requests = <<categoryURLs[n]>>
         ELSE lookedUp /\ err.kind = "category" /\ requests = <<>> /\ resp = NoResp

C4_Witness ==
  /\ Selected(9) /\ err.kind = "category" /\ requests = <<>>

\* C5: a response with status >= 300 makes the fetch fail with an error that
\* carries the status; no feed is returned and the body is not decoded
C5_StatusError ==
  (pc = "fetched" /\ resp.kind = "http" /\ resp.status >= 300) =>
    /\ err = Error("status", resp.status)
    /\ rss = Nil
    /\ ~decoded

C5_Witness ==
  /\ pc = "fetched" /\ resp.kind = "http" /\ resp.status = 301
  /\ resp.body \in Docs /\ err.kind = "status"

\* C6: the fetch never yields a feed together with an error; when the request
\* fails, the deadline elapses or the body is a document cut before its end,
\* there is an error, no feed, and displayFeed is not called in that cycle
C6_FeedOrError ==
  /\ ~(rss # Nil /\ err # NoErr)
  /\ displayed => rss # Nil /\ err = NoErr
  /\ (requests # <<>> /\ (resp.kind \in {"transport", "timeout"}
                          \/ (resp.kind = "http" /\ resp.body \in Truncations))) =>
       err # NoErr /\ rss = Nil /\ ~displayed

C6_Witness ==
  /\ requests # <<>> /\ resp.kind = "http" /\ resp.status = 200
  /\ resp.body = <<Open("rss"), Open("channel"), Open("title")>>
  /\ err.kind = "xml" /\ rss = Nil /\ ~displayed

IsContent(e) == e.f \notin {"rule", "empty"}
IsItemTitle(e) == e.f = "item.title"
IsItemPubDate(e) == e.f = "item.pubDate"
IsItemDescription(e) == e.f = "item.description"

Items == rss.Channel.Items

\* what the claim expects for the item at position i of the feed
ClaimedItem(v, it) ==
  << Line("item.title", 0, it.Title), Line("item.link", 0, it.Link),
     Line("item.description", 0, sanitize(v, it.Description)),
     Line("item.pubDate", 0, it.PubDate) >>

\* C7, as claimed: the output is the channel title, description and link and
\* then, per item in document order, title, link, cleaned description, pubDate
C7_RenderOrder ==
  pc = "displayed" =>
    SelectSeq(out, IsContent) =
      << Line("channel.title", 0, rss.Channel.Title),
         Line("channel.description", 0, rss.Channel.Description),
         Line("channel.link", 0, rss.Channel.Link) >>
      \o Concat([i \in 1..Len(Items) |-> ClaimedItem(variant, Items[i])])

NonEmptyPubDate(it) == it.PubDate # <<>>
NonEmptyClean(it) == cleanText(it.Description) # <<>>

\* C7, amended: every item is emitted exactly once and in document order.
\* single: channel title, link, description, then per item title, link,
\* cleaned description, pubDate.  loop: upper-cased channel title, channel
\* description, then per item its number and trimmed title, its pubDate when
\* not empty and its cleaned description when not empty; no link is emitted
C7_RenderOrderPerRevision ==
  pc = "displayed" =>
    LET content == SelectSeq(out, IsContent)
        titles == SelectSeq(out, IsItemTitle)
        dates == SelectSeq(out, IsItemPubDate)
        descs == SelectSeq(out, IsItemDescription)
        dated == SelectSeq(Items, NonEmptyPubDate)
        described == SelectSeq(Items, NonEmptyClean)
    IN /\ Len(titles) = Len(Items)
       /\ out[1].f = "channel.title"
       /\ variant = "single" =>
            /\ content[1].s = rss.Channel.Title
            /\ content[2] = Line("channel.link", 0, rss.Channel.Link)
            /\ content[3] = Line("channel.description", 0, rss.Channel.Description)
            /\ Len(content) = 3 + 4 * Len(Items)
            /\ \A i \in 1..Len(Items) :
                 SubSeq(content, 4 * i, 4 * i + 3) = ClaimedItem("single", Items[i])
       /\ variant = "loop" =>
            /\ content[1].s = ToUpper(rss.Channel.Title)
            /\ content[2] = Line("channel.description", 0, rss.Channel.Description)
            /\ \A i \in 1..Len(out) : out[i].f \notin {"channel.link", "item.link"}
            /\ \A i \in 1..Len(Items) :
                 titles[i] = Line("item.title", i, TrimSpace(Items[i].Title))
            /\ dates = [i \in 1..Len(dated) |-> Line("item.pubDate", 0, dated[i].PubDate)]
            /\ descs = [i \in 1..Len(described) |->
                          Line("item.description", 0, cleanText(described[i].Description))]
            /\ Len(content) = 2 + Len(titles) + Len(dates) + Len(descs)

C7_Witness ==
  /\ pc = "displayed" /\ variant = "loop" /\ Len(Items) = 2
  /\ Items[1] # Items[2] /\ Items[2].PubDate = <<>>

\* C8, as claimed: cleaning the cleaned text changes nothing, for every text
C8_Idempotent == Len(clean) = 2 => clean[2] = clean[1]

\* C8, amended: removeTags (single, decodes &nbsp; only) is idempotent on every
\* text; cleanText (loop, decodes every entity) is idempotent on every text
\* that holds no '&'
C8_IdempotentWithoutEntities ==
  (Len(clean) = 2 /\ (variant = "single" \/ "&" \notin Range(text))) =>
    clean[2] = clean[1]

C8_Witness ==
  /\ Len(clean) = 2 /\ variant = "loop" /\ "&" \notin Range(text)
  /\ "<" \in Range(text) /\ ">" \in Range(text) /\ " " \in Range(text)
  /\ clean[1] # text /\ clean[1] # <<>>

\* C9, as claimed: every line read from the input was read as the selection
\* of a cycle
C9_EveryLineIsASelection ==
  \A i \in 1..Len(consumed) : consumed[i] = "selection"

\* C9, amended: a cycle reads exactly one line as its selection (none at the
\* end of the input); in the loop revision a cycle that displayed a feed reads
\* one more line, when there is one, and drops it unparsed
C9_OneSelectionPerCycle ==
  [][pc = "prompt" =>
       LET n == Len(stdin) - Len(stdin')
       IN IF stdin = <<>> THEN n = 0 /\ read' = "eof"
          ELSE /\ read' = "line" /\ input' = Head(stdin)
               /\ n = IF variant = "loop" /\ displayed' /\ Len(stdin) >= 2 THEN 2 ELSE 1
               /\ stdin' = Drop(stdin, n)]_vars

C9_Witness ==
  /\ variant = "loop" /\ displayed /\ pc = "prompt"
  /\ consumed = <<"selection", "enter">> /\ stdin = <<>>

\* an optional sign followed by digits only
IsInteger(s) ==
  LET body == IF s # <<>> /\ s[1] \in {"+", "-"} THEN Tail(s) ELSE s
  IN body # <<>> /\ \A i \in 1..Len(body) : body[i] \in Digits

\* C10: a trimmed line that is an integer parses to it (the line "5" to 5);
\* any other line is an input-format error, and its cycle consults no
\* category and issues no GET
C10_SelectionParsing ==
  read = "line" =>
    /\ input = <<"5">> => choice.ok /\ choice.val = 5
    /\ IF IsInteger(TrimSpace(input))
       THEN choice.ok
       ELSE ~choice.ok /\ err.kind = "input" /\ ~lookedUp /\ requests = <<>>

====
